---------------------------- MODULE Spec2Model ----------------------------
(***************************************************************************)
(* The issue generator github-issues/generate_all_issues.py as a state     *)
(* machine.  A text is a sequence of one-character strings; a file's       *)
(* content is such a sequence too (the characters used are ASCII, so a     *)
(* character is a byte).  The file system maps a path to its content or    *)
(* to Absent.  The long literal bodies of records 3..9 are abridged to a   *)
(* heading, the opening words, one horizontal rule and their last line.    *)
(***************************************************************************)
EXTENDS Integers, Sequences, FiniteSets, TLC

\* ------------------------------------------------------------- bounds ----
\* runs of the script started one after the other (by process)
MaxRuns == 2
\* pieces a generated fragment text is assembled from
MaxPieces == 3
\* output files other than issue-02.md that exist before the first run
MaxPre == 2

\* ----------------------------------------------------- literal strings ---
\* '/tmp/issue1_body.txt'
Frag1Path ==
    <<"/","t","m","p","/","i","s","s","u","e","1","_","b","o","d","y",".","t","x","t">>

\* 'issue-02.md'
Issue2Path ==
    <<"i","s","s","u","e","-","0","2",".","m","d">>

\* '/home/ubuntu/pp-bot-analysis.md'
Frag3Path ==
    <<"/","h","o","m","e","/","u","b","u","n","t","u","/","p","p","-","b","o","t","-","a",
        "n","a","l","y","s","i","s",".","m","d">>

\* '---\n\n'
Marker2 ==
    <<"-","-","-","\n","\n">>

\* '### Required for Railway.com + PostgreSQL:'
Marker3 ==
    <<"#","#","#"," ","R","e","q","u","i","r","e","d"," ","f","o","r"," ","R","a","i","l",
        "w","a","y",".","c","o","m"," ","+"," ","P","o","s","t","g","r","e","S","Q","L",
        ":">>

Title1 ==
    <<"S","l","a","c","k"," ","A","p","p"," ","S","e","t","u","p"," ","&"," ","C","o","n",
        "f","i","g","u","r","a","t","i","o","n"," ","G","u","i","d","e">>

Title2 ==
    <<"M","i","g","r","a","t","e"," ","t","o"," ","T","y","p","e","S","c","r","i","p","t">>

Title3 ==
    <<"P","o","s","t","g","r","e","S","Q","L"," ","D","a","t","a","b","a","s","e"," ","I",
        "n","t","e","g","r","a","t","i","o","n">>

Title4 ==
    <<"I","m","p","l","e","m","e","n","t"," ","L","e","a","d","e","r","b","o","a","r","d",
        " ","V","i","e","w"," ","C","o","m","m","a","n","d">>

Title5 ==
    <<"R","a","i","l","w","a","y",".","c","o","m"," ","D","e","p","l","o","y","m","e","n",
        "t"," ","C","o","n","f","i","g","u","r","a","t","i","o","n">>

Title6 ==
    <<"C","I","/","C","D"," ","w","i","t","h"," ","G","i","t","H","u","b"," ","A","c","t",
        "i","o","n","s">>

Title7 ==
    <<"E","r","r","o","r"," ","H","a","n","d","l","i","n","g"," ","&"," ","L","o","g","g",
        "i","n","g">>

Title8 ==
    <<"T","e","s","t","i","n","g"," ","I","n","f","r","a","s","t","r","u","c","t","u","r",
        "e">>

Title9 ==
    <<"D","o","c","u","m","e","n","t","a","t","i","o","n">>

Phase1 ==
    <<"P","h","a","s","e"," ","1",":"," ","F","o","u","n","d","a","t","i","o","n">>

Phase2 ==
    <<"P","h","a","s","e"," ","2",":"," ","D","a","t","a","b","a","s","e"," ","&"," ","F",
        "e","a","t","u","r","e","s">>

Phase3 ==
    <<"P","h","a","s","e"," ","3",":"," ","D","e","p","l","o","y","m","e","n","t"," ","&",
        " ","P","r","o","d","u","c","t","i","o","n">>

Label_documentation ==
    <<"d","o","c","u","m","e","n","t","a","t","i","o","n">>

Label_setup ==
    <<"s","e","t","u","p">>

Label_good_first_issue ==
    <<"g","o","o","d","-","f","i","r","s","t","-","i","s","s","u","e">>

Label_enhancement ==
    <<"e","n","h","a","n","c","e","m","e","n","t">>

Label_typescript ==
    <<"t","y","p","e","s","c","r","i","p","t">>

Label_refactoring ==
    <<"r","e","f","a","c","t","o","r","i","n","g">>

Label_database ==
    <<"d","a","t","a","b","a","s","e">>

Label_postgresql ==
    <<"p","o","s","t","g","r","e","s","q","l">>

Label_feature ==
    <<"f","e","a","t","u","r","e">>

Label_deployment ==
    <<"d","e","p","l","o","y","m","e","n","t">>

Label_infrastructure ==
    <<"i","n","f","r","a","s","t","r","u","c","t","u","r","e">>

Label_ci_cd ==
    <<"c","i","/","c","d">>

Label_automation ==
    <<"a","u","t","o","m","a","t","i","o","n">>

Label_github_actions ==
    <<"g","i","t","h","u","b","-","a","c","t","i","o","n","s">>

Label_logging ==
    <<"l","o","g","g","i","n","g">>

Label_error_handling ==
    <<"e","r","r","o","r","-","h","a","n","d","l","i","n","g">>

Label_testing ==
    <<"t","e","s","t","i","n","g">>

Label_quality ==
    <<"q","u","a","l","i","t","y">>

\* abridged from the literal of lines 37-68
Boilerplate3 ==
    <<"\n","\n","#","#"," ","C","o","n","t","e","x","t","\n","\n","T","h","e"," ","p","p",
        "-","b","o","t"," ","c","u","r","r","e","n","t","l","y","\n","\n","-","-","-",
        "\n","\n","S","e","e"," ","i","s","s","u","e","-","0","3",".","m","d"," ","f","o",
        "r"," ","f","u","l","l"," ","i","m","p","l","e","m","e","n","t","a","t","i","o",
        "n"," ","d","e","t","a","i","l","s"," ","i","n","c","l","u","d","i","n","g"," ",
        "s","c","h","e","m","a",","," ","c","o","d","e"," ","e","x","a","m","p","l","e",
        "s",","," ","a","n","d"," ","s","t","e","p","-","b","y","-","s","t","e","p"," ",
        "g","u","i","d","e",".","\n">>

\* abridged from the literal of lines 74-330
Body4 ==
    <<"#","#"," ","C","o","n","t","e","x","t","\n","\n","T","h","e"," ","b","o","t"," ","c",
        "u","r","r","e","n","t","l","y","\n","\n","-","-","-","\n","\n","-"," ","D","o",
        "c","u","m","e","n","t","a","t","i","o","n",":"," ","0",".","5"," ","h","o","u",
        "r","s","\n">>

\* abridged from the literal of lines 336-647
Body5 ==
    <<"#","#"," ","C","o","n","t","e","x","t","\n","\n","T","h","e"," ","p","p","-","b","o",
        "t"," ","n","e","e","d","s","\n","\n","-","-","-","\n","\n","-"," ","D","o","c",
        "u","m","e","n","t","a","t","i","o","n",":"," ","0",".","5"," ","h","o","u","r",
        "s","\n">>

\* abridged from the literal of lines 653-1064
Body6 ==
    <<"#","#"," ","C","o","n","t","e","x","t","\n","\n","T","o"," ","e","n","s","u","r","e",
        " ","c","o","d","e","\n","\n","-","-","-","\n","\n","-"," ","D","o","c","u","m",
        "e","n","t","a","t","i","o","n",":"," ","0",".","5"," ","h","o","u","r","s","\n">>

\* abridged from the literal of lines 1070-1506
Body7 ==
    <<"#","#"," ","C","o","n","t","e","x","t","\n","\n","T","h","e"," ","c","u","r","r","e",
        "n","t"," ","i","m","p","l","e","m","e","n","t","a","t","i","o","n","\n","\n","-",
        "-","-","\n","\n","-"," ","D","o","c","u","m","e","n","t","a","t","i","o","n",":",
        " ","0",".","5"," ","h","o","u","r","s","\n">>

\* abridged from the literal of lines 1512-1983
Body8 ==
    <<"#","#"," ","C","o","n","t","e","x","t","\n","\n","T","h","e"," ","c","u","r","r","e",
        "n","t"," ","t","e","s","t","\n","\n","-","-","-","\n","\n","-"," ","D","o","c",
        "u","m","e","n","t","a","t","i","o","n",":"," ","1"," ","h","o","u","r","\n">>

\* abridged from the literal of lines 1989-2259
Body9 ==
    <<"#","#"," ","C","o","n","t","e","x","t","\n","\n","T","h","e"," ","r","e","p","o","s",
        "i","t","o","r","y"," ","n","e","e","d","s","\n","\n","-","-","-","\n","\n","-",
        " ","T","r","o","u","b","l","e","s","h","o","o","t","i","n","g",":"," ","0",".",
        "5"," ","h","o","u","r","s","\n">>

\* ------------------------------------------------------ text operations --
\* the value of a path that names no file (no content equals it: contents hold
\* one-character strings)
Absent == <<"ABSENT">>
NUL == "NUL"

\* the character of a decimal digit
DigitChar(d) ==
    CASE d = 0 -> "0" [] d = 1 -> "1" [] d = 2 -> "2" [] d = 3 -> "3"
      [] d = 4 -> "4" [] d = 5 -> "5" [] d = 6 -> "6" [] d = 7 -> "7"
      [] d = 8 -> "8" [] d = 9 -> "9"

\* str(n) for n >= 0
RECURSIVE Decimal(_)
Decimal(n) ==
    IF n < 10 THEN <<DigitChar(n)>>
    ELSE Decimal(n \div 10) \o <<DigitChar(n % 10)>>

\* format(n, "d"): no padding
FormatD(n) == Decimal(n)

\* format(n, "02d"): decimal, zero-padded on the left to width 2
Format02d(n) ==
    LET d == Decimal(n) IN IF Len(d) < 2 THEN <<"0">> \o d ELSE d

Prefix == <<"i","s","s","u","e","-">>
Suffix == <<".","m","d">>

\* f"issue-{issue_num:02d}.md"
FileName(issue_num) == Prefix \o Format02d(issue_num) \o Suffix

\* whether sep occurs in text at index i
MatchAt(text, sep, i) ==
    /\ i >= 1
    /\ i + Len(sep) - 1 <= Len(text)
    /\ SubSeq(text, i, i + Len(sep) - 1) = sep

\* str.rfind, 1-based: the index of the rightmost occurrence, 0 if none
FindLast(text, sep) ==
    LET hits == {i \in 1..Len(text) : MatchAt(text, sep, i)} IN
    IF hits = {} THEN 0 ELSE CHOOSE i \in hits : \A j \in hits : i >= j

\* str.find, 1-based: the index of the leftmost occurrence, 0 if none
Find(text, sep) ==
    LET hits == {i \in 1..Len(text) : MatchAt(text, sep, i)} IN
    IF hits = {} THEN 0 ELSE CHOOSE i \in hits : \A j \in hits : i <= j

\* sep in text
Contains(text, sep) == Find(text, sep) # 0

\* text.split(sep, 1): at most one split, at the leftmost occurrence
Split1(text, sep) ==
    LET i == Find(text, sep) IN
    IF i = 0 THEN <<text>>
    ELSE <<SubSeq(text, 1, i - 1), SubSeq(text, i + Len(sep), Len(text))>>

\* sep.join(parts)
RECURSIVE Join(_, _)
Join(sep, parts) ==
    IF parts = <<>> THEN <<>>
    ELSE IF Len(parts) = 1 THEN parts[1]
    ELSE parts[1] \o sep \o Join(sep, Tail(parts))

\* f.read() of a file opened in text mode 'r': universal newlines, so that
\* "\r\n" and a lone "\r" are read as "\n"
ReadText(content) ==
    LET Kept(i) == ~(content[i] = "\n" /\ i > 1 /\ content[i - 1] = "\r")
        kept == SelectSeq([i \in 1..Len(content) |-> i], Kept)
    IN [k \in 1..Len(kept) |->
            IF content[kept[k]] = "\r" THEN "\n" ELSE content[kept[k]]]

\* a write of data at offset pos of a file holding content (a gap left by a
\* truncation is filled with NUL bytes)
Zeros(n) == [i \in 1..n |-> NUL]

WriteAt(content, pos, data) ==
    LET before == IF pos <= Len(content) THEN SubSeq(content, 1, pos)
                  ELSE content \o Zeros(pos - Len(content))
        after  == SubSeq(content, pos + Len(data) + 1, Len(content))
    IN before \o data \o after
\* ----------------------------------------------------------- the catalog --
Record(title, body, milestone, labels) ==
    [title |-> title, body |-> body, milestone |-> milestone, labels |-> labels]

\* issue2_content.split('---\n\n', 1)[1] if '---\n\n' in issue2_content
\* else issue2_content
Issue2Body(content) ==
    IF Contains(content, Marker2) THEN Split1(content, Marker2)[2] ELSE content

\* record 3's body from the last part of the split instead of the first
Issue3BodyAfter(text) ==
    LET parts == Split1(text, Marker3) IN parts[Len(parts)] \o Boilerplate3

\* open(...).read().split('### Required for Railway.com + PostgreSQL:', 1)[0]
\* + '''...'''
Issue3Body(text) == Split1(text, Marker3)[1] \o Boilerplate3

\* the dict literal with the items of keys 1 and 2 in the other order
IssuesSwapped(body1, body2, text3) ==
    << [num |-> 2, data |-> Record(Title2, body2, Phase1,
            <<Label_enhancement, Label_typescript, Label_refactoring>>)],
       [num |-> 1, data |-> Record(Title1, body1, Phase1,
            <<Label_documentation, Label_setup, Label_good_first_issue>>)],
       [num |-> 3, data |-> Record(Title3, Issue3Body(text3), Phase2,
            <<Label_enhancement, Label_database, Label_postgresql>>)],
       [num |-> 4, data |-> Record(Title4, Body4, Phase2,
            <<Label_enhancement, Label_feature>>)],
       [num |-> 5, data |-> Record(Title5, Body5, Phase3,
            <<Label_deployment, Label_infrastructure>>)],
       [num |-> 6, data |-> Record(Title6, Body6, Phase3,
            <<Label_ci_cd, Label_automation, Label_github_actions>>)],
       [num |-> 7, data |-> Record(Title7, Body7, Phase1,
            <<Label_enhancement, Label_logging, Label_error_handling>>)],
       [num |-> 8, data |-> Record(Title8, Body8, Phase2,
            <<Label_testing, Label_quality>>)],
       [num |-> 9, data |-> Record(Title9, Body9, Phase3,
            <<Label_documentation>>)] >>

\* the dict literal `issues`, as its items in insertion order
Issues(body1, body2, text3) ==
    << [num |-> 1, data |-> Record(Title1, body1, Phase1,
            <<Label_documentation, Label_setup, Label_good_first_issue>>)],
       [num |-> 2, data |-> Record(Title2, body2, Phase1,
            <<Label_enhancement, Label_typescript, Label_refactoring>>)],
       [num |-> 3, data |-> Record(Title3, Issue3Body(text3), Phase2,
            <<Label_enhancement, Label_database, Label_postgresql>>)],
       [num |-> 4, data |-> Record(Title4, Body4, Phase2,
            <<Label_enhancement, Label_feature>>)],
       [num |-> 5, data |-> Record(Title5, Body5, Phase3,
            <<Label_deployment, Label_infrastructure>>)],
       [num |-> 6, data |-> Record(Title6, Body6, Phase3,
            <<Label_ci_cd, Label_automation, Label_github_actions>>)],
       [num |-> 7, data |-> Record(Title7, Body7, Phase1,
            <<Label_enhancement, Label_logging, Label_error_handling>>)],
       [num |-> 8, data |-> Record(Title8, Body8, Phase2,
            <<Label_testing, Label_quality>>)],
       [num |-> 9, data |-> Record(Title9, Body9, Phase3,
            <<Label_documentation>>)] >>

\* the title line without the heading mark
TitleLineNoHash(issue_data) == issue_data.title \o <<"\n", "\n">>

\* the five strings the create branch hands to f.write, in order
TitleLine(issue_data) == <<"#", " ">> \o issue_data.title \o <<"\n", "\n">>

MilestoneLine(issue_data) ==
    <<"*","*","M","i","l","e","s","t","o","n","e",":","*","*"," ">>
        \o issue_data.milestone \o <<"\n">>

\* the labels joined without the space after the comma
LabelsLineNoSpace(issue_data) ==
    <<"*","*","L","a","b","e","l","s",":","*","*"," ">>
        \o Join(<<",">>, issue_data.labels) \o <<"\n", "\n">>

LabelsLine(issue_data) ==
    <<"*","*","L","a","b","e","l","s",":","*","*"," ">>
        \o Join(<<",", " ">>, issue_data.labels) \o <<"\n", "\n">>

\* the rule followed by one newline only
RuleLineShort == <<"-","-","-","\n">>

RuleLine == <<"-","-","-","\n","\n">>

\* ------------------------------------------------------ the file system --
IssueNums == 1..9

Paths == {Frag1Path, Issue2Path, Frag3Path} \cup {FileName(n) : n \in IssueNums}

\* os.path.exists(path)
Exists(files, path) == path \in DOMAIN files /\ files[path] # Absent

\* texts of the fragments and of files left by earlier work
RECURSIVE Concats(_, _)
Concats(pieces, n) ==
    IF n = 0 THEN {<<>>}
    ELSE LET shorter == Concats(pieces, n - 1)
         IN shorter \cup {s \o p : s \in shorter, p \in pieces}

Pieces2 == {<<"a">>, <<"-">>, <<"-","-","-">>, <<"\r","\n">>, Marker2}
Frag2Texts == Concats(Pieces2, MaxPieces)

Pieces3 == {<<"a">>, <<"#">>, SubSeq(Marker3, 1, Len(Marker3) - 1), Marker3}
Frag3Texts == Concats(Pieces3, MaxPieces)

DefaultFrag1 == <<"S","e","t","u","p","\r","\n">>
DefaultFrag2 == <<"#"," ","T","\n","\n","-","-","-","\n","\n","b","o","d","y","\n">>
DefaultFrag3 == <<"I","n","t","r","o","\n">> \o Marker3 \o <<"\n","x">>
Frag1Texts == {<<>>, DefaultFrag1, <<"a">> \o Marker2 \o <<"b">>}
OldTexts == {<<>>, <<"o","l","d","\n">>}

OtherOutputs == {FileName(n) : n \in IssueNums} \ {Issue2Path}
PreSets == {pre \in SUBSET OtherOutputs : Cardinality(pre) <= MaxPre}

MkFs(f1, f2, f3, pre, old) ==
    [path \in Paths |->
        IF path = Frag1Path THEN f1
        ELSE IF path = Issue2Path THEN f2
        ELSE IF path = Frag3Path THEN f3
        ELSE IF path \in pre THEN old
        ELSE Absent]

\* file systems the first run may find: the fragments' texts varied one at a
\* time over an otherwise empty directory, and presence/absence of the three
\* fragments and of earlier output files varied with fixed texts
TextScenarios ==
    {MkFs(f1, DefaultFrag2, DefaultFrag3, {}, <<>>) : f1 \in Frag1Texts}
    \cup {MkFs(DefaultFrag1, f2, DefaultFrag3, {}, <<>>) : f2 \in Frag2Texts}
    \cup {MkFs(DefaultFrag1, DefaultFrag2, f3, {}, <<>>) : f3 \in Frag3Texts}

ExistScenarios ==
    UNION { UNION { {MkFs(f1, f2, f3, pre, old) :
                        f1 \in {Absent, DefaultFrag1},
                        f2 \in {Absent, DefaultFrag2},
                        f3 \in {Absent, DefaultFrag3}}
                    : pre \in PreSets } : old \in OldTexts }

\* --------------------------------------------------------------- state ---
Procs == {1, 2}
NoFile == [path |-> <<>>, pos |-> 0, buf |-> <<>>, open |-> FALSE]

VARIABLES
    fs,              \* the file system: path -> content or Absent
    pc,              \* where each process is in the script
    run,             \* how many runs each process has started
    issue1_body,     \* module globals of the script, per process
    issue2_content,
    issue2_body,
    issues,          \* the catalog: items in insertion order, <<>> before it is built
    cur,             \* items of issues.items() the for loop has taken
    f,               \* the file object of the with statement
    out,             \* what the run has printed, and the exception that ended it
    fsInit,          \* history: the file system before the first run
    fs0,             \* history: the file system when the run started
    opened,          \* history: paths the run has opened for writing
    reads,           \* history: paths the run has opened for reading, in order
    created          \* history: paths the process reported as created, in any run

vars == <<fs, pc, run, issue1_body, issue2_content, issue2_body, issues, cur, f,
          out, fsInit, fs0, opened, reads, created>>

globals == <<issue1_body, issue2_content, issue2_body, issues, cur, f>>
history == <<fsInit, fs0, opened, reads, created>>

\* the loop variables of the write loop, while an item is being processed
issue_num(p) == issues[p][cur[p]].num
issue_data(p) == issues[p][cur[p]].data
filename(p) == FileName(issue_num(p))

Init ==
    /\ fs \in TextScenarios \cup ExistScenarios
    /\ pc = [p \in Procs |-> "idle"]
    /\ run = [p \in Procs |-> 0]
    /\ issue1_body = [p \in Procs |-> <<>>]
    /\ issue2_content = [p \in Procs |-> <<>>]
    /\ issue2_body = [p \in Procs |-> <<>>]
    /\ issues = [p \in Procs |-> <<>>]
    /\ cur = [p \in Procs |-> 0]
    /\ f = [p \in Procs |-> NoFile]
    /\ out = [p \in Procs |-> <<>>]
    /\ fsInit = fs
    /\ fs0 = [p \in Procs |-> fs]
    /\ opened = [p \in Procs |-> {}]
    /\ reads = [p \in Procs |-> <<>>]
    /\ created = [p \in Procs |-> {}]

Say(p, line) == out' = [out EXCEPT ![p] = Append(@, line)]
Goto(p, label) == pc' = [pc EXCEPT ![p] = label]

\* an uncaught exception: the traceback is printed and the interpreter exits
Raise(p, path) ==
    /\ Goto(p, "failed")
    /\ Say(p, [ev |-> "error", file |-> path])

\* the script is started: a fresh interpreter, nothing read yet
Start(p) ==
    /\ pc[p] \in {"idle", "done", "failed"}
    /\ run[p] < MaxRuns
    /\ run' = [run EXCEPT ![p] = @ + 1]
    /\ Goto(p, "read1")
    /\ issue1_body' = [issue1_body EXCEPT ![p] = <<>>]
    /\ issue2_content' = [issue2_content EXCEPT ![p] = <<>>]
    /\ issue2_body' = [issue2_body EXCEPT ![p] = <<>>]
    /\ issues' = [issues EXCEPT ![p] = <<>>]
    /\ cur' = [cur EXCEPT ![p] = 0]
    /\ f' = [f EXCEPT ![p] = NoFile]
    /\ out' = [out EXCEPT ![p] = <<>>]
    /\ fs0' = [fs0 EXCEPT ![p] = fs]
    /\ opened' = [opened EXCEPT ![p] = {}]
    /\ reads' = [reads EXCEPT ![p] = <<>>]
    /\ UNCHANGED <<fs, fsInit, created>>

\* with open('/tmp/issue1_body.txt', 'r') as f: issue1_body = f.read()
ReadFragment1(p) ==
    /\ pc[p] = "read1"
    /\ IF Exists(fs, Frag1Path)
       THEN /\ issue1_body' = [issue1_body EXCEPT ![p] = ReadText(fs[Frag1Path])]
            /\ Goto(p, "read2")
            /\ UNCHANGED out
       ELSE /\ Raise(p, Frag1Path)
            /\ UNCHANGED issue1_body
    /\ reads' = [reads EXCEPT ![p] = Append(@, Frag1Path)]
    /\ UNCHANGED <<fs, run, issue2_content, issue2_body, issues, cur, f,
                   fsInit, fs0, opened, created>>

\* ReadFragment2 taking a missing file for an empty one
ReadFragment2Lenient(p) ==
    /\ pc[p] = "read2"
    /\ LET content == IF Exists(fs, Issue2Path) THEN ReadText(fs[Issue2Path]) ELSE <<>>
       IN /\ issue2_content' = [issue2_content EXCEPT ![p] = content]
          /\ issue2_body' = [issue2_body EXCEPT ![p] = Issue2Body(content)]
    /\ Goto(p, "build")
    /\ reads' = [reads EXCEPT ![p] = Append(@, Issue2Path)]
    /\ UNCHANGED <<fs, run, issue1_body, issues, cur, f, out,
                   fsInit, fs0, opened, created>>

\* with open('issue-02.md', 'r') as f: issue2_content = f.read(); issue2_body = ...
ReadFragment2(p) ==
    /\ pc[p] = "read2"
    /\ IF Exists(fs, Issue2Path)
       THEN LET content == ReadText(fs[Issue2Path]) IN
            /\ issue2_content' = [issue2_content EXCEPT ![p] = content]
            /\ issue2_body' = [issue2_body EXCEPT ![p] = Issue2Body(content)]
            /\ Goto(p, "build")
            /\ UNCHANGED out
       ELSE /\ Raise(p, Issue2Path)
            /\ UNCHANGED <<issue2_content, issue2_body>>
    /\ reads' = [reads EXCEPT ![p] = Append(@, Issue2Path)]
    /\ UNCHANGED <<fs, run, issue1_body, issues, cur, f,
                   fsInit, fs0, opened, created>>

\* BuildCatalog taking a missing third fragment for an empty one
BuildCatalogLenient(p) ==
    /\ pc[p] = "build"
    /\ issues' = [issues EXCEPT ![p] =
            Issues(issue1_body[p], issue2_body[p],
                   IF Exists(fs, Frag3Path) THEN ReadText(fs[Frag3Path]) ELSE <<>>)]
    /\ Goto(p, "loop")
    /\ Say(p, [ev |-> "banner", file |-> <<>>])
    /\ reads' = [reads EXCEPT ![p] = Append(@, Frag3Path)]
    /\ UNCHANGED <<fs, run, issue1_body, issue2_content, issue2_body, cur, f,
                   fsInit, fs0, opened, created>>

\* issues = {...}: record 3's body reads the third fragment; then the banner
BuildCatalog(p) ==
    /\ pc[p] = "build"
    /\ IF Exists(fs, Frag3Path)
       THEN /\ issues' = [issues EXCEPT ![p] =
                    Issues(issue1_body[p], issue2_body[p], ReadText(fs[Frag3Path]))]
            /\ Goto(p, "loop")
            /\ Say(p, [ev |-> "banner", file |-> <<>>])
       ELSE /\ Raise(p, Frag3Path)
            /\ UNCHANGED issues
    /\ reads' = [reads EXCEPT ![p] = Append(@, Frag3Path)]
    /\ UNCHANGED <<fs, run, issue1_body, issue2_content, issue2_body, cur, f,
                   fsInit, fs0, opened, created>>

\* the next item of issues.items(), if any, and its target
HasNext(p) == cur[p] < Len(issues[p])
\* the target name without the zero padding
NextFileUnpadded(p) == Prefix \o Decimal(issues[p][cur[p] + 1].num) \o Suffix

NextFile(p) == FileName(issues[p][cur[p] + 1].num)

\* the skip branch leaving the loop (break for continue)
SkipBreak(p) ==
    /\ pc[p] = "loop"
    /\ HasNext(p)
    /\ Exists(fs, NextFile(p))
    /\ cur' = [cur EXCEPT ![p] = Len(issues[p])]
    /\ Say(p, [ev |-> "skip", file |-> NextFile(p)])
    /\ UNCHANGED <<fs, pc, run, issue1_body, issue2_content, issue2_body, issues, f,
                   history>>

\* the skip branch taken without the existence check
SkipAlways(p) ==
    /\ pc[p] = "loop"
    /\ HasNext(p)
    /\ cur' = [cur EXCEPT ![p] = @ + 1]
    /\ Say(p, [ev |-> "skip", file |-> NextFile(p)])
    /\ UNCHANGED <<fs, pc, run, issue1_body, issue2_content, issue2_body, issues, f,
                   history>>

\* if os.path.exists(filename): print skipping; continue
Skip(p) ==
    /\ pc[p] = "loop"
    /\ HasNext(p)
    /\ Exists(fs, NextFile(p))
    /\ cur' = [cur EXCEPT ![p] = @ + 1]
    /\ Say(p, [ev |-> "skip", file |-> NextFile(p)])
    /\ UNCHANGED <<fs, pc, run, issue1_body, issue2_content, issue2_body, issues, f,
                   history>>

\* Creating without the existence check (the skip branch lost)
CreatingAlways(p) ==
    /\ pc[p] = "loop"
    /\ HasNext(p)
    /\ cur' = [cur EXCEPT ![p] = @ + 1]
    /\ Say(p, [ev |-> "creating", file |-> NextFile(p)])
    /\ Goto(p, "open")
    /\ UNCHANGED <<fs, run, issue1_body, issue2_content, issue2_body, issues, f,
                   history>>

\* the target does not exist: print creating
Creating(p) ==
    /\ pc[p] = "loop"
    /\ HasNext(p)
    /\ ~Exists(fs, NextFile(p))
    /\ cur' = [cur EXCEPT ![p] = @ + 1]
    /\ Say(p, [ev |-> "creating", file |-> NextFile(p)])
    /\ Goto(p, "open")
    /\ UNCHANGED <<fs, run, issue1_body, issue2_content, issue2_body, issues, f,
                   history>>

\* the file opened for appending: no truncation, writing starts at its end
OpenAppend(p) ==
    /\ pc[p] = "open"
    /\ fs' = [fs EXCEPT ![filename(p)] = IF @ = Absent THEN <<>> ELSE @]
    /\ f' = [f EXCEPT ![p] = [path |-> filename(p),
                              pos |-> IF Exists(fs, filename(p))
                                      THEN Len(fs[filename(p)]) ELSE 0,
                              buf |-> <<>>, open |-> TRUE]]
    /\ opened' = [opened EXCEPT ![p] = @ \cup {filename(p)}]
    /\ Goto(p, "write_title")
    /\ UNCHANGED <<run, issue1_body, issue2_content, issue2_body, issues, cur, out,
                   fsInit, fs0, reads, created>>

\* the open that already reports the record as created
OpenReporting(p) ==
    /\ pc[p] = "open"
    /\ fs' = [fs EXCEPT ![filename(p)] = <<>>]
    /\ f' = [f EXCEPT ![p] = [path |-> filename(p), pos |-> 0, buf |-> <<>>,
                              open |-> TRUE]]
    /\ opened' = [opened EXCEPT ![p] = @ \cup {filename(p)}]
    /\ Say(p, [ev |-> "created", file |-> filename(p)])
    /\ Goto(p, "write_title")
    /\ UNCHANGED <<run, issue1_body, issue2_content, issue2_body, issues, cur,
                   fsInit, fs0, reads, created>>

\* open(filename, 'w'): the file is created, or truncated if it exists by now
Open(p) ==
    /\ pc[p] = "open"
    /\ fs' = [fs EXCEPT ![filename(p)] = <<>>]
    /\ f' = [f EXCEPT ![p] = [path |-> filename(p), pos |-> 0, buf |-> <<>>,
                              open |-> TRUE]]
    /\ opened' = [opened EXCEPT ![p] = @ \cup {filename(p)}]
    /\ Goto(p, "write_title")
    /\ UNCHANGED <<run, issue1_body, issue2_content, issue2_body, issues, cur, out,
                   fsInit, fs0, reads, created>>

\* f.write(data) that also takes the body out of the record it writes
\* (issue_data.pop('body') for issue_data['body'])
WriteConsuming(p, data, flushed, label) ==
    LET pending == f[p].buf \o data IN
    /\ fs' = [fs EXCEPT ![f[p].path] =
                 WriteAt(@, f[p].pos, SubSeq(pending, 1, flushed))]
    /\ f' = [f EXCEPT ![p].pos = @ + flushed,
                      ![p].buf = SubSeq(pending, flushed + 1, Len(pending))]
    /\ issues' = [issues EXCEPT ![p][cur[p]].data.body =
                     IF label = "close" THEN <<>> ELSE @]
    /\ Goto(p, label)
    /\ UNCHANGED <<run, issue1_body, issue2_content, issue2_body, cur, out, history>>

\* f.write(data): data joins the buffer; the first `flushed` characters of the
\* buffer go to the file at the file position
Write(p, data, flushed, label) ==
    LET pending == f[p].buf \o data IN
    /\ fs' = [fs EXCEPT ![f[p].path] =
                 WriteAt(@, f[p].pos, SubSeq(pending, 1, flushed))]
    /\ f' = [f EXCEPT ![p].pos = @ + flushed,
                      ![p].buf = SubSeq(pending, flushed + 1, Len(pending))]
    /\ Goto(p, label)
    /\ UNCHANGED <<run, issue1_body, issue2_content, issue2_body, issues, cur, out,
                   history>>

WriteTitle(p) ==
    /\ pc[p] = "write_title"
    /\ Write(p, TitleLine(issue_data(p)), 0, "write_milestone")

WriteMilestone(p) ==
    /\ pc[p] = "write_milestone"
    /\ Write(p, MilestoneLine(issue_data(p)), 0, "write_labels")

WriteLabels(p) ==
    /\ pc[p] = "write_labels"
    /\ Write(p, LabelsLine(issue_data(p)), 0, "write_rule")

WriteRule(p) ==
    /\ pc[p] = "write_rule"
    /\ Write(p, RuleLine, 0, "write_body")

\* how much of the buffer a write of `data` may push to the file: nothing (it
\* all fits the buffer), the buffer's capacity (here: up to the middle of
\* data), or everything (data exceeds the capacity by more than a buffer)
FlushLens(pending, data) ==
    {0, Len(pending) + (Len(data) \div 2), Len(pending) + Len(data)}

\* WriteBody losing the last character of the body
WriteBodyStripped(p) ==
    /\ pc[p] = "write_body"
    /\ LET body == issue_data(p).body
           data == SubSeq(body, 1, Len(body) - 1)
       IN \E flushed \in FlushLens(f[p].buf, data) : Write(p, data, flushed, "close")

WriteBody(p) ==
    /\ pc[p] = "write_body"
    /\ \E flushed \in FlushLens(f[p].buf, issue_data(p).body) :
           Write(p, issue_data(p).body, flushed, "close")

\* the with block left without the report that follows it
CloseSilent(p) ==
    /\ pc[p] = "close"
    /\ fs' = [fs EXCEPT ![f[p].path] = WriteAt(@, f[p].pos, f[p].buf)]
    /\ f' = [f EXCEPT ![p] = NoFile]
    /\ created' = [created EXCEPT ![p] = @ \cup {filename(p)}]
    /\ Goto(p, "loop")
    /\ UNCHANGED <<run, issue1_body, issue2_content, issue2_body, issues, cur, out,
                   fsInit, fs0, opened, reads>>

\* the with block left without the flush of the buffer
CloseNoFlush(p) ==
    /\ pc[p] = "close"
    /\ f' = [f EXCEPT ![p] = NoFile]
    /\ Say(p, [ev |-> "created", file |-> filename(p)])
    /\ created' = [created EXCEPT ![p] = @ \cup {filename(p)}]
    /\ Goto(p, "loop")
    /\ UNCHANGED <<fs, run, issue1_body, issue2_content, issue2_body, issues, cur,
                   fsInit, fs0, opened, reads>>

\* leaving the with block closes f, which flushes the buffer; print created
Close(p) ==
    /\ pc[p] = "close"
    /\ fs' = [fs EXCEPT ![f[p].path] = WriteAt(@, f[p].pos, f[p].buf)]
    /\ f' = [f EXCEPT ![p] = NoFile]
    /\ Say(p, [ev |-> "created", file |-> filename(p)])
    /\ created' = [created EXCEPT ![p] = @ \cup {filename(p)}]
    /\ Goto(p, "loop")
    /\ UNCHANGED <<run, issue1_body, issue2_content, issue2_body, issues, cur,
                   fsInit, fs0, opened, reads>>

\* the names the summary lists: issue-{i:02d}.md for i in range(1, len(issues) + 1)
\* the listing counting from 0 (range(len(issues)))
ListedFromZero(n) == [k \in 1..n |-> [ev |-> "listed", file |-> FileName(k - 1)]]

Listed(n) == [k \in 1..n |-> [ev |-> "listed", file |-> FileName(k)]]

\* the loop is exhausted: the summary is printed and the script ends
Summary(p) ==
    /\ pc[p] = "loop"
    /\ ~HasNext(p)
    /\ out' = [out EXCEPT ![p] =
                  @ \o <<[ev |-> "total", file |-> Decimal(Len(issues[p]))]>>
                    \o Listed(Len(issues[p]))]
    /\ Goto(p, "done")
    /\ UNCHANGED <<fs, run, issue1_body, issue2_content, issue2_body, issues, cur, f,
                   history>>

Step(p) ==
    \/ Start(p)
    \/ ReadFragment1(p)
    \/ ReadFragment2(p)
    \/ BuildCatalog(p)
    \/ Skip(p)
    \/ Creating(p)
    \/ Open(p)
    \/ WriteTitle(p)
    \/ WriteMilestone(p)
    \/ WriteLabels(p)
    \/ WriteRule(p)
    \/ WriteBody(p)
    \/ Close(p)
    \/ Summary(p)

\* the steps of a started run
Execute(p) ==
    \/ ReadFragment1(p)
    \/ ReadFragment2(p)
    \/ BuildCatalog(p)
    \/ Skip(p)
    \/ Creating(p)
    \/ Open(p)
    \/ WriteTitle(p)
    \/ WriteMilestone(p)
    \/ WriteLabels(p)
    \/ WriteRule(p)
    \/ WriteBody(p)
    \/ Close(p)
    \/ Summary(p)

\* one process: the script is run, and run again after it has ended
Next == Step(1)

Spec == Init /\ [][Next]_vars

\* the interpreter keeps executing a started run: a step that can be taken is
\* taken.  The runs start from the file systems in which each fragment is
\* present or missing and none, one or two output files exist already.
FairScenarios ==
    {fsys \in ExistScenarios :
        {path \in OtherOutputs : Exists(fsys, path)}
            \in {{}, {FileName(5)}, {FileName(1), FileName(9)}}}

InitFair == Init /\ fs \in FairScenarios

FairSpec == InitFair /\ [][Next]_vars /\ WF_vars(Execute(1))

\* ---------------------------------------------------- failing file output --
\* open(filename, 'w') raises OSError (no permission, no space): nothing is
\* created, the exception is not caught and the run ends
OpenFails(p) ==
    /\ pc[p] = "open"
    /\ Raise(p, filename(p))
    /\ UNCHANGED <<fs, run, issue1_body, issue2_content, issue2_body, issues, cur, f,
                   history>>

\* what the buffer would hold after the statement at pc
Pending(p) ==
    IF pc[p] = "write_body" THEN f[p].buf \o issue_data(p).body ELSE f[p].buf

\* the failure caught and the loop going on with the next record
WriteFailsGoOn(p) ==
    /\ pc[p] \in {"write_body", "close"}
    /\ \E n \in {0, Len(Pending(p)) \div 2, Len(Pending(p))} :
           fs' = [fs EXCEPT ![f[p].path] =
                     WriteAt(@, f[p].pos, SubSeq(Pending(p), 1, n))]
    /\ f' = [f EXCEPT ![p] = NoFile]
    /\ Goto(p, "loop")
    /\ UNCHANGED <<run, issue1_body, issue2_content, issue2_body, issues, cur, out,
                   history>>

\* a flush of the buffer raises OSError, in f.write(issue_data['body']) or when
\* the with block closes f: none, a part or all of the buffer has reached the
\* file; the with block closes f, the exception is not caught, the run ends
WriteFails(p) ==
    /\ pc[p] \in {"write_body", "close"}
    /\ \E n \in {0, Len(Pending(p)) \div 2, Len(Pending(p))} :
           fs' = [fs EXCEPT ![f[p].path] =
                     WriteAt(@, f[p].pos, SubSeq(Pending(p), 1, n))]
    /\ f' = [f EXCEPT ![p] = NoFile]
    /\ Raise(p, filename(p))
    /\ UNCHANGED <<run, issue1_body, issue2_content, issue2_body, issues, cur,
                   history>>

\* the script run where file output may fail
NextFail == Next \/ OpenFails(1) \/ WriteFails(1)

SpecFail == InitFair /\ [][NextFail]_vars

\* ------------------------------------------------------ an interrupted run --
\* the interruption that also removes the file being written
InterruptCleanup(p) ==
    /\ pc[p] \in {"write_title", "write_milestone", "write_labels", "write_rule",
                "write_body", "close"}
    /\ f[p].open
    /\ fs' = [fs EXCEPT ![f[p].path] = Absent]
    /\ f' = [f EXCEPT ![p] = NoFile]
    /\ Goto(p, "failed")
    /\ Say(p, [ev |-> "interrupt", file |-> filename(p)])
    /\ UNCHANGED <<run, issue1_body, issue2_content, issue2_body, issues, cur,
                   history>>

\* the process is stopped inside the with block of lines 2277-2282: killed
\* (what is in the buffer is lost) or interrupted by KeyboardInterrupt (the
\* with block closes f, which flushes the buffer); no statement removes the file
Interrupt(p) ==
    /\ pc[p] \in {"write_title", "write_milestone", "write_labels", "write_rule",
                "write_body", "close"}
    /\ f[p].open
    /\ \E n \in {0, Len(f[p].buf)} :
           fs' = [fs EXCEPT ![f[p].path] =
                     WriteAt(@, f[p].pos, SubSeq(f[p].buf, 1, n))]
    /\ f' = [f EXCEPT ![p] = NoFile]
    /\ Goto(p, "failed")
    /\ Say(p, [ev |-> "interrupt", file |-> filename(p)])
    /\ UNCHANGED <<run, issue1_body, issue2_content, issue2_body, issues, cur,
                   history>>

NextInterrupt == Next \/ Interrupt(1)

SpecInterrupt == InitFair /\ [][NextInterrupt]_vars

\* ---------------------------------------------------------- two instances --
\* directories with the three fragments in which one or two targets are
\* missing, for two instances started once each
ConcScenarios ==
    {MkFs(DefaultFrag1, DefaultFrag2, DefaultFrag3, OtherOutputs \ missing, old) :
        missing \in {{FileName(4)}, {FileName(1), FileName(9)}},
        old \in OldTexts}

ConcInit ==
    /\ fs \in ConcScenarios
    /\ pc = [p \in Procs |-> "idle"]
    /\ run = [p \in Procs |-> 0]
    /\ issue1_body = [p \in Procs |-> <<>>]
    /\ issue2_content = [p \in Procs |-> <<>>]
    /\ issue2_body = [p \in Procs |-> <<>>]
    /\ issues = [p \in Procs |-> <<>>]
    /\ cur = [p \in Procs |-> 0]
    /\ f = [p \in Procs |-> NoFile]
    /\ out = [p \in Procs |-> <<>>]
    /\ fsInit = fs
    /\ fs0 = [p \in Procs |-> fs]
    /\ opened = [p \in Procs |-> {}]
    /\ reads = [p \in Procs |-> <<>>]
    /\ created = [p \in Procs |-> {}]

\* an instance is started once and runs to its end
ConcStep(p) ==
    \/ pc[p] = "idle" /\ Start(p)
    \/ Execute(p)

ConcNext == \E p \in Procs : ConcStep(p)

ConcSpec == ConcInit /\ [][ConcNext]_vars

\* --------------------------------------------- a rendered document read back --
\* records to render: titles, milestones, labels and bodies with and without
\* the rule '---' and the marker of the second fragment
RenderTitles ==
    {Title2, <<"a">>, <<"a","-","-","-">>, <<"a">> \o Marker2 \o <<"b">>}

RenderMilestones == {Phase1, <<"m","-","-","-">>, <<"-","-","-","\n">>}

RenderLabels ==
    {<<Label_documentation>>, <<Label_enhancement, Label_feature>>,
     <<Label_ci_cd, Label_automation, Label_github_actions>>,
     <<Label_testing, <<"-","-","-">>>>}

RenderBodies ==
    {<<>>, <<"b","\n">>, Marker2 \o <<"b">>,
     <<"a">> \o Marker2 \o <<"b">> \o Marker2, <<"a","\r","\n","b">>}

RenderRecords ==
    {Record(title, body, milestone, labels) :
        title \in RenderTitles, body \in RenderBodies,
        milestone \in RenderMilestones, labels \in RenderLabels}

\* the write loop about to take the one record of a catalog, no file present
RenderInit ==
    /\ fs = [path \in Paths |-> Absent]
    /\ pc = [p \in Procs |-> IF p = 1 THEN "loop" ELSE "idle"]
    /\ run = [p \in Procs |-> IF p = 1 THEN 1 ELSE 0]
    /\ issue1_body = [p \in Procs |-> <<>>]
    /\ issue2_content = [p \in Procs |-> <<>>]
    /\ issue2_body = [p \in Procs |-> <<>>]
    /\ \E rec \in RenderRecords :
           issues = [p \in Procs |->
                        IF p = 1 THEN <<[num |-> 1, data |-> rec]>> ELSE <<>>]
    /\ cur = [p \in Procs |-> 0]
    /\ f = [p \in Procs |-> NoFile]
    /\ out = [p \in Procs |-> <<>>]
    /\ fsInit = fs
    /\ fs0 = [p \in Procs |-> fs]
    /\ opened = [p \in Procs |-> {}]
    /\ reads = [p \in Procs |-> <<>>]
    /\ created = [p \in Procs |-> {}]

\* the statements of lines 15-17 applied to the file just written:
\* content = f.read(); content.split('---\n\n', 1)[1] if '---\n\n' in content
Extract(p) ==
    /\ pc[p] = "loop"
    /\ ~HasNext(p)
    /\ cur[p] > 0
    /\ Exists(fs, filename(p))
    /\ LET content == ReadText(fs[filename(p)]) IN
       /\ issue2_content' = [issue2_content EXCEPT ![p] = content]
       /\ issue2_body' = [issue2_body EXCEPT ![p] = Issue2Body(content)]
    /\ reads' = [reads EXCEPT ![p] = Append(@, filename(p))]
    /\ Goto(p, "done")
    /\ UNCHANGED <<fs, run, issue1_body, issues, cur, f, out,
                   fsInit, fs0, opened, created>>

RenderNext ==
    \/ Creating(1)
    \/ Open(1)
    \/ WriteTitle(1)
    \/ WriteMilestone(1)
    \/ WriteLabels(1)
    \/ WriteRule(1)
    \/ WriteBody(1)
    \/ Close(1)
    \/ Extract(1)

RenderSpec == RenderInit /\ [][RenderNext]_vars

\* ------------------------------------------------------------ properties --
Ended(p) == pc[p] \in {"done", "failed"}
Fragments == {Frag1Path, Issue2Path, Frag3Path}

\* the name of the file of issue n, written out
NameDigits == <<"1", "2", "3", "4", "5", "6", "7", "8", "9">>
Name(n) == <<"i","s","s","u","e","-","0", NameDigits[n], ".","m","d">>

\* the standard header block of a record, written out
CommaSeparated(labels) ==
    IF Len(labels) = 1 THEN labels[1]
    ELSE IF Len(labels) = 2 THEN labels[1] \o <<",", " ">> \o labels[2]
    ELSE labels[1] \o <<",", " ">> \o labels[2] \o <<",", " ">> \o labels[3]

Header(rec) ==
    <<"#", " ">> \o rec.title \o <<"\n">>
      \o <<"\n">>
      \o <<"*","*","M","i","l","e","s","t","o","n","e",":","*","*"," ">>
      \o rec.milestone \o <<"\n">>
      \o <<"*","*","L","a","b","e","l","s",":","*","*"," ">>
      \o CommaSeparated(rec.labels) \o <<"\n">>
      \o <<"\n">>
      \o <<"-","-","-","\n">>
      \o <<"\n">>

\* the record of issue n in the catalog of process p
RecordOf(p, n) ==
    (CHOOSE item \in {issues[p][k] : k \in 1..Len(issues[p])} : item.num = n).data

\* the events of out that report on a record, in order
Reports(p) == SelectSeq(out[p], LAMBDA e : e.ev \in {"skip", "created"})
Events(p, kind) == {out[p][k].file : k \in {j \in 1..Len(out[p]) : out[p][j].ev = kind}}

\* C1 (non-overwrite): a target issue-NN.md that exists when the run starts, and
\* so when the run reaches its record, is never opened for writing by the run
\* and holds its pre-run content at every point of the run and after it,
\* whatever that content is.
C1_NonOverwrite ==
    \A n \in IssueNums :
        (run[1] >= 1 /\ Exists(fs0[1], Name(n)))
            => /\ Name(n) \notin opened[1]
               /\ fs[Name(n)] = fs0[1][Name(n)]

\* a run has ended normally past a stale file: issue-05.md existed before the
\* run with a content that is not the document of record 5, and was skipped
C1_Witness ==
    /\ pc[1] = "done"
    /\ Exists(fs0[1], Name(5))
    /\ fs0[1][Name(5)] # Header(RecordOf(1, 5)) \o RecordOf(1, 5).body
    /\ Name(5) \in Events(1, "skip")
    /\ fs[Name(5)] = fs0[1][Name(5)]

\* C2 (missing-fragment abort): in a run started with one of the three
\* fragment files missing, the run never reaches the write loop: it is reading
\* fragments or has failed, it has opened no file for writing and the file
\* system is as it was when the run started; its last output is the error.
C2_MissingFragmentAbort ==
    (run[1] >= 1 /\ \E path \in Fragments : ~Exists(fs0[1], path))
        => /\ pc[1] \in {"read1", "read2", "build", "failed"}
           /\ opened[1] = {}
           /\ fs = fs0[1]
           /\ pc[1] = "failed" => /\ out[1] # <<>>
                                  /\ out[1][Len(out[1])].ev = "error"
                                  /\ ~Exists(fs, out[1][Len(out[1])].file)

\* the run failed on the third fragment, the last one read, with the other two
\* present and output files missing that the write loop would have created
C2_Witness ==
    /\ pc[1] = "failed"
    /\ Exists(fs0[1], Frag1Path)
    /\ Exists(fs0[1], Issue2Path)
    /\ ~Exists(fs0[1], Frag3Path)
    /\ \E n \in IssueNums : ~Exists(fs, Name(n))

\* C3, as claimed (end-to-end): a run that found the three fragments present
\* with non-empty text and no output file (other than a file that is itself a
\* fragment) has ended normally, has created nine files issue-01.md ..
\* issue-09.md, and each of them is non-empty and begins with the header block
\* of its record.
BeginsWith(text, prefix) ==
    Len(text) >= Len(prefix) /\ SubSeq(text, 1, Len(prefix)) = prefix

FragmentsNonEmpty(files) ==
    \A path \in Fragments : Exists(files, path) /\ files[path] # <<>>

NoOutputs(files) ==
    \A n \in IssueNums : Name(n) \notin Fragments => ~Exists(files, Name(n))

C3_NineCreated ==
    (Ended(1) /\ FragmentsNonEmpty(fs0[1]) /\ NoOutputs(fs0[1]))
        => /\ pc[1] = "done"
           /\ Events(1, "created") = {Name(n) : n \in IssueNums}
           /\ \A n \in IssueNums :
                  /\ fs[Name(n)] # <<>>
                  /\ BeginsWith(fs[Name(n)], Header(RecordOf(1, n)))

\* C3, amended: such a run has ended normally and has created exactly the
\* eight files issue-01.md, issue-03.md .. issue-09.md, each non-empty and
\* beginning with the header block of its record; issue-02.md, the second
\* fragment, is skipped and keeps its content; the nine files exist.
C3_EightCreated ==
    (Ended(1) /\ FragmentsNonEmpty(fs0[1]) /\ NoOutputs(fs0[1]))
        => /\ pc[1] = "done"
           /\ Events(1, "created") = {Name(n) : n \in IssueNums \ {2}}
           /\ Events(1, "skip") = {Name(2)}
           /\ opened[1] = {Name(n) : n \in IssueNums \ {2}}
           /\ fs[Name(2)] = fs0[1][Name(2)]
           /\ \A n \in IssueNums \ {2} :
                  /\ Exists(fs, Name(n))
                  /\ fs[Name(n)] # <<>>
                  /\ BeginsWith(fs[Name(n)], Header(RecordOf(1, n)))
           /\ {path \in Paths : Exists(fs, path)}
                  = {Name(n) : n \in IssueNums} \cup Fragments

\* such a run has ended, and issue-02.md does not begin with a header block
C3_Witness ==
    /\ pc[1] = "done"
    /\ FragmentsNonEmpty(fs0[1])
    /\ NoOutputs(fs0[1])
    /\ Cardinality(Events(1, "created")) = 8
    /\ ~BeginsWith(fs[Name(2)], Header(RecordOf(1, 2)))

\* C4, as claimed (idempotence): when the second of two runs in succession has
\* ended, the first having started with none of issue-01.md .. issue-09.md
\* present, the second run has skipped every record and changed nothing.
SkippedAll(p) ==
    /\ pc[p] = "done"
    /\ Events(p, "skip") = {Name(n) : n \in IssueNums}
    /\ Events(p, "creating") = {}

C4_SecondRunSkipsAll ==
    (run[1] = 2 /\ Ended(1) /\ \A n \in IssueNums : ~Exists(fsInit, Name(n)))
        => SkippedAll(1) /\ fs = fs0[1]

\* C4, amended: when the first of the runs started with the three fragments
\* present (issue-02.md among them) and none of the other eight output files,
\* every later run in succession opens nothing for writing and leaves the
\* file system as it found it at each of its steps, and once ended it has
\* skipped every record; so the eight files that the first run created hold
\* what the first run wrote.
FragmentsPresent(files) == \A path \in Fragments : Exists(files, path)

C4_Idempotence ==
    (run[1] >= 2 /\ FragmentsPresent(fsInit) /\ NoOutputs(fsInit))
        => /\ fs = fs0[1]
           /\ opened[1] = {}
           /\ Events(1, "creating") = {}
           /\ created[1] = {Name(n) : n \in IssueNums \ {2}}
           /\ \A n \in IssueNums \ {2} :
                  \/ issues[1] = <<>>
                  \/ BeginsWith(fs[Name(n)], Header(RecordOf(1, n)))
           /\ Ended(1) => SkippedAll(1)

\* the second run has ended after the first created its eight files
C4_Witness ==
    /\ run[1] = 2
    /\ pc[1] = "done"
    /\ FragmentsPresent(fsInit)
    /\ NoOutputs(fsInit)
    /\ Cardinality(created[1]) = 8
    /\ opened[1] = {}

\* C5 (header well-formedness): every file the run has created begins with
\* the line "# <title>", a blank line, the line "**Milestone:** <milestone>",
\* the line "**Labels:** <labels joined with ", ">", a blank line, the line
\* "---" and a blank line, in this order, with the title, milestone and labels
\* of the catalog record whose number names the file.
C5_HeaderWellFormed ==
    \A n \in IssueNums :
        Name(n) \in Events(1, "created")
            => BeginsWith(fs[Name(n)], Header(RecordOf(1, n)))

\* the header block of issue-01.md, written out
Header1Text ==
    <<"#"," ","S","l","a","c","k"," ","A","p","p"," ","S","e","t","u","p"," ","&"," ","C",
        "o","n","f","i","g","u","r","a","t","i","o","n"," ","G","u","i","d","e","\n","\n",
        "*","*","M","i","l","e","s","t","o","n","e",":","*","*"," ","P","h","a","s","e",
        " ","1",":"," ","F","o","u","n","d","a","t","i","o","n","\n","*","*","L","a","b",
        "e","l","s",":","*","*"," ","d","o","c","u","m","e","n","t","a","t","i","o","n",
        ","," ","s","e","t","u","p",","," ","g","o","o","d","-","f","i","r","s","t","-",
        "i","s","s","u","e","\n","\n","-","-","-","\n","\n">>

\* issue-01.md, whose record has three labels, was created with its header
C5_Witness ==
    /\ Name(1) \in Events(1, "created")
    /\ BeginsWith(fs[Name(1)], Header1Text)

\* C6 (body fidelity): in every file the run has created, what follows the
\* header block is exactly the body of the catalog record whose number names
\* the file.
C6_BodyFidelity ==
    \A n \in IssueNums :
        Name(n) \in Events(1, "created")
            => LET doc == fs[Name(n)]
                   h == Len(Header(RecordOf(1, n)))
               IN /\ Len(doc) >= h
                  /\ SubSeq(doc, h + 1, Len(doc)) = RecordOf(1, n).body

\* issue-01.md was created from a body that itself holds a horizontal rule
C6_Witness ==
    /\ Name(1) \in Events(1, "created")
    /\ RecordOf(1, 1).body = <<"a","-","-","-","\n","\n","b">>
    /\ fs[Name(1)] = Header1Text \o <<"a","-","-","-","\n","\n","b">>

\* C7 (naming): the target of the record of issue n is "issue-", n zero-padded
\* to two digits, ".md": the records the loop has taken name these targets in
\* order, every file opened for writing is one of them, and distinct issue
\* numbers have distinct targets.
Taken(p) == SelectSeq(out[p], LAMBDA e : e.ev \in {"skip", "creating"})

C7_Naming ==
    /\ \A m, n \in IssueNums : m # n => FileName(m) # FileName(n)
    /\ Len(Taken(1)) = cur[1]
    /\ \A k \in 1..Len(Taken(1)) : Taken(1)[k].file = Name(issues[1][k].num)
    /\ f[1].open => f[1].path = Name(issues[1][cur[1]].num)
    /\ opened[1] \subseteq {Name(n) : n \in IssueNums}

\* all nine records were taken: the first as issue-01.md, the last as
\* issue-09.md
C7_Witness ==
    /\ pc[1] = "done"
    /\ Len(Taken(1)) = 9
    /\ Taken(1)[1].file = <<"i","s","s","u","e","-","0","1",".","m","d">>
    /\ Taken(1)[9].file = <<"i","s","s","u","e","-","0","9",".","m","d">>
    /\ <<"i","s","s","u","e","-","0","9",".","m","d">> \in opened[1]

\* C8 (after-marker extraction): once the catalog is built, with text the
\* second fragment as read: if "---\n\n" occurs in text, record 2's body is
\* what follows its first occurrence (later occurrences stay in the body); if
\* it does not occur, the body is text; text is the content of issue-02.md when
\* that holds no carriage return.
Occurrences(text, marker) ==
    {i \in 1..(Len(text) - Len(marker) + 1) :
        SubSeq(text, i, i + Len(marker) - 1) = marker}

IsFirst(i, occ) == i \in occ /\ \A j \in occ : i <= j

NoCR(content) == \A i \in 1..Len(content) : content[i] # "\r"

C8_AfterMarker ==
    issues[1] # <<>> =>
        LET text == issue2_content[1]
            body == RecordOf(1, 2).body
            occ == Occurrences(text, <<"-","-","-","\n","\n">>)
        IN /\ occ # {} => \E i \in occ : /\ IsFirst(i, occ)
                                          /\ body = SubSeq(text, i + 5, Len(text))
           /\ occ = {} => body = text
           /\ NoCR(fs0[1][Issue2Path]) => text = fs0[1][Issue2Path]

\* the fragment holds the marker twice: the body starts after the first and
\* holds the second
C8_Witness ==
    /\ issues[1] # <<>>
    /\ Cardinality(Occurrences(issue2_content[1], <<"-","-","-","\n","\n">>)) = 2
    /\ Occurrences(RecordOf(1, 2).body, <<"-","-","-","\n","\n">>) # {}
    /\ Len(RecordOf(1, 2).body) < Len(issue2_content[1])

\* C9 (before-marker extraction): once the catalog is built, with text the
\* third fragment (a file without carriage returns, read as it is): if the
\* marker "### Required for Railway.com + PostgreSQL:" occurs in text, record
\* 3's body is what precedes its first occurrence followed by the boilerplate
\* block; if it does not occur, the body is text followed by the boilerplate.
C9_BeforeMarker ==
    (issues[1] # <<>> /\ NoCR(fs0[1][Frag3Path])) =>
        LET text == fs0[1][Frag3Path]
            body == RecordOf(1, 3).body
            occ == Occurrences(text, Marker3)
        IN /\ occ # {} => \E i \in occ : /\ IsFirst(i, occ)
                                          /\ body = SubSeq(text, 1, i - 1) \o Boilerplate3
           /\ occ = {} => body = text \o Boilerplate3

\* the fragment holds the marker twice after some text: the body is that text
\* and the boilerplate
C9_Witness ==
    /\ issues[1] # <<>>
    /\ Cardinality(Occurrences(fs0[1][Frag3Path], Marker3)) = 2
    /\ ~BeginsWith(fs0[1][Frag3Path], Marker3)
    /\ RecordOf(1, 3).body = <<"a">> \o Boilerplate3

\* C10 (a skip is not an error): a record whose target exists when the loop
\* takes it is reported as skipped; after a skip has been reported the run has
\* not failed, it can take its next step until it is done, and once done every
\* record with a larger number has been reported (skipped or created) after
\* the skip and the summary ends the output.
IssueOf(file) == CHOOSE n \in IssueNums : Name(n) = file

Running(p) ==
    ENABLED (\/ Skip(p) \/ Creating(p) \/ Open(p) \/ WriteTitle(p)
             \/ WriteMilestone(p) \/ WriteLabels(p) \/ WriteRule(p)
             \/ WriteBody(p) \/ Close(p) \/ Summary(p))

C10_SkipContinues ==
    /\ \A n \in IssueNums :
           (cur[1] >= n /\ Exists(fs0[1], Name(n))) => Name(n) \in Events(1, "skip")
    /\ \A k \in 1..Len(out[1]) :
           out[1][k].ev = "skip" =>
               /\ pc[1] # "failed"
               /\ pc[1] # "done" => Running(1)
               /\ pc[1] = "done" =>
                      /\ \A n \in IssueNums :
                             n > IssueOf(out[1][k].file) =>
                                 \E j \in (k + 1)..Len(out[1]) :
                                     /\ out[1][j].ev \in {"skip", "created"}
                                     /\ out[1][j].file = Name(n)
                      /\ \E j \in (k + 1)..Len(out[1]) : out[1][j].ev = "total"
                      /\ out[1][Len(out[1])].ev = "listed"

\* a run is done that skipped issue-05.md and then created issue-06.md
C10_Witness ==
    /\ pc[1] = "done"
    /\ Name(5) \in Events(1, "skip")
    /\ Name(6) \in Events(1, "created")
    /\ Name(9) \in Events(1, "created")
    /\ out[1][Len(out[1])].ev = "listed"

\* C11 (input fragments are read-only): each of the three fragment files holds
\* at every state the content it had before the first run and is never opened
\* for writing; while the run is loading the fragments and building the
\* catalog the file system is as the run found it.
C11_FragmentsReadOnly ==
    /\ \A path \in Fragments :
           /\ fs[path] = fsInit[path]
           /\ path \notin opened[1]
    /\ pc[1] \in {"read1", "read2", "build"} => fs = fs0[1] /\ opened[1] = {}

\* a run that wrote eight files is done, issue-02.md skipped, and the three
\* fragments read in it are non-empty
C11_Witness ==
    /\ pc[1] = "done"
    /\ Cardinality(opened[1]) = 8
    /\ reads[1] = <<Frag1Path, Issue2Path, Frag3Path>>
    /\ FragmentsNonEmpty(fs)
    /\ Name(2) \in Events(1, "skip")

\* C12 (run summary): the step that emits the summary is taken when all nine
\* records have been taken and reported; the summary gives a total of 9 and
\* lists issue-01.md .. issue-09.md in order, created or skipped alike; the
\* step ends the run and changes no file.
SummaryLines(p) == SelectSeq(out[p], LAMBDA e : e.ev \in {"total", "listed"})

C12_RunSummary ==
    [][(SummaryLines(1) = <<>> /\ SummaryLines(1)' # <<>>)
          => /\ cur[1] = 9
             /\ Len(Reports(1)) = 9
             /\ \A n \in IssueNums : Reports(1)[n].file = Name(n)
             /\ fs' = fs
             /\ pc'[1] = "done"
             /\ Len(SummaryLines(1)') = 10
             /\ SummaryLines(1)'[1] = [ev |-> "total", file |-> <<"9">>]
             /\ \A n \in IssueNums :
                    SummaryLines(1)'[n + 1] = [ev |-> "listed", file |-> Name(n)]
             /\ SubSeq(out'[1], 1, Len(out[1])) = out[1]
             /\ SubSeq(out'[1], Len(out[1]) + 1, Len(out'[1])) = SummaryLines(1)'
      ]_vars

\* the summary was printed by a run that skipped issue-05.md and created
\* issue-06.md
C12_Witness ==
    /\ pc[1] = "done"
    /\ Len(SummaryLines(1)) = 10
    /\ Name(5) \in Events(1, "skip")
    /\ Name(6) \in Events(1, "created")

\* C13 (termination): a started run ends.  The fragments are read in the order
\* fragment 1, fragment 2, fragment 3 and every read before the last one found
\* its file; a run that fails does so on the fragment it read last, which is
\* missing, before any record is taken, with the error as its only output; a
\* run past the catalog has read all three; a run that is done has reported
\* nine records and printed the summary.
IsPrefix(s, t) == Len(s) <= Len(t) /\ SubSeq(t, 1, Len(s)) = s

TwoWaysToEnd ==
    /\ IsPrefix(reads[1], <<Frag1Path, Issue2Path, Frag3Path>>)
    /\ \A k \in 1..(Len(reads[1]) - 1) : Exists(fs0[1], reads[1][k])
    /\ pc[1] = "failed" =>
           /\ reads[1] # <<>>
           /\ ~Exists(fs0[1], reads[1][Len(reads[1])])
           /\ out[1] = <<[ev |-> "error", file |-> reads[1][Len(reads[1])]]>>
           /\ cur[1] = 0
           /\ fs = fs0[1]
    /\ pc[1] \notin {"idle", "read1", "read2", "build", "failed"} =>
           /\ Len(reads[1]) = 3
           /\ FragmentsPresent(fs0[1])
    /\ pc[1] = "done" =>
           /\ Len(Reports(1)) = 9
           /\ Len(SummaryLines(1)) = 10
           /\ out[1][Len(out[1])].ev = "listed"

C13_Termination ==
    /\ []TwoWaysToEnd
    /\ (pc[1] \notin {"idle", "done", "failed"}) ~> Ended(1)

\* a run has failed on the second fragment after reading the first, with the
\* third fragment present and unread
C13_Witness ==
    /\ pc[1] = "failed"
    /\ reads[1] = <<Frag1Path, Issue2Path>>
    /\ Exists(fs, Frag3Path)
    /\ run[1] = 2

\* C14, as claimed (behaviour determined by presence and absence only): a run
\* from a file system with the presence pattern of the reference file system
\* (the three fragments present, no other output file) ends as the run from
\* the reference file system does: it creates the same eight files and leaves
\* each with the content the reference run leaves.
SamePresence(a, b) == \A path \in Paths : Exists(a, path) <=> Exists(b, path)

RefFs == MkFs(DefaultFrag1, DefaultFrag2, DefaultFrag3, {}, <<>>)

RefIssues ==
    Issues(ReadText(DefaultFrag1), Issue2Body(ReadText(DefaultFrag2)),
           ReadText(DefaultFrag3))

RefDoc(n) == Header(RefIssues[n].data) \o RefIssues[n].data.body

C14_SamePresenceSameContent ==
    (pc[1] = "done" /\ SamePresence(fs0[1], RefFs))
        => /\ Events(1, "created") = {Name(n) : n \in IssueNums \ {2}}
           /\ \A n \in IssueNums \ {2} : fs[Name(n)] = RefDoc(n)

\* C14, amended: the outcome of every record is a function of the presence
\* pattern alone (skipped if and only if its target existed when the run
\* started; the run fails if and only if a fragment is missing, on the first
\* missing one), and so is the content of a created issue-04.md .. issue-09.md,
\* the document of the literal record; the content of a created issue-01.md
\* or issue-03.md is determined by the text of the first or third fragment.
LiteralRecord(n) ==
    CASE n = 4 -> Record(Title4, Body4, Phase2, <<Label_enhancement, Label_feature>>)
      [] n = 5 -> Record(Title5, Body5, Phase3,
                         <<Label_deployment, Label_infrastructure>>)
      [] n = 6 -> Record(Title6, Body6, Phase3,
                         <<Label_ci_cd, Label_automation, Label_github_actions>>)
      [] n = 7 -> Record(Title7, Body7, Phase1,
                         <<Label_enhancement, Label_logging, Label_error_handling>>)
      [] n = 8 -> Record(Title8, Body8, Phase2, <<Label_testing, Label_quality>>)
      [] n = 9 -> Record(Title9, Body9, Phase3, <<Label_documentation>>)

LiteralDoc(n) == Header(LiteralRecord(n)) \o LiteralRecord(n).body

Header3Text ==
    Header(Record(Title3, <<>>, Phase2,
                  <<Label_enhancement, Label_database, Label_postgresql>>))

BeforeFirst(text, marker) ==
    LET occ == Occurrences(text, marker) IN
    IF occ = {} THEN text
    ELSE SubSeq(text, 1, (CHOOSE i \in occ : IsFirst(i, occ)) - 1)

FirstMissing(files) ==
    IF ~Exists(files, Frag1Path) THEN Frag1Path
    ELSE IF ~Exists(files, Issue2Path) THEN Issue2Path
    ELSE Frag3Path

C14_DeterminedByPresence ==
    /\ \A k \in 1..Len(Taken(1)) :
           Taken(1)[k].ev = "skip" <=> Exists(fs0[1], Name(k))
    /\ Ended(1) => (pc[1] = "failed" <=> ~FragmentsPresent(fs0[1]))
    /\ pc[1] = "failed" =>
           out[1] = <<[ev |-> "error", file |-> FirstMissing(fs0[1])]>>
    /\ \A n \in 4..9 :
           Name(n) \in Events(1, "created") => fs[Name(n)] = LiteralDoc(n)
    /\ (Name(1) \in Events(1, "created") /\ NoCR(fs0[1][Frag1Path]))
           => fs[Name(1)] = Header1Text \o fs0[1][Frag1Path]
    /\ (Name(3) \in Events(1, "created") /\ NoCR(fs0[1][Frag3Path]))
           => fs[Name(3)] = Header3Text \o BeforeFirst(fs0[1][Frag3Path], Marker3)
                                \o Boilerplate3

\* a run from the presence pattern of the reference file system is done and
\* has left issue-01.md with another content than the reference run, and
\* issue-04.md with the same
C14_Witness ==
    /\ pc[1] = "done"
    /\ SamePresence(fs0[1], RefFs)
    /\ fs0[1] # RefFs
    /\ Name(1) \in Events(1, "created")
    /\ fs[Name(1)] # RefDoc(1)
    /\ fs[Name(4)] = RefDoc(4)
    /\ fs[Name(4)] = LiteralDoc(4)

\* the run from the reference file system itself is done and has left the
\* reference documents
C14_Reference ==
    (pc[1] = "done" /\ fs0[1] = RefFs)
        => /\ Events(1, "created") = {Name(n) : n \in IssueNums \ {2}}
           /\ \A n \in IssueNums \ {2} : fs[Name(n)] = RefDoc(n)

\* C15 (processing order): in the write phase the records are visited in the
\* order 1, 2, .., 9, each once per run: the k-th existence check of a run is
\* on issue-0k.md, every step of the loop moves on by exactly one record, and
\* a path is opened for writing only if the run has not opened it before.
Checks(p) == [k \in 1..Len(Taken(p)) |-> Taken(p)[k].file]

OpenStep(p) == pc[p] = "open" /\ pc'[p] = "write_title"

C15_AscendingOnce ==
    /\ [](/\ Len(Checks(1)) = cur[1]
          /\ \A k \in 1..Len(Checks(1)) : Checks(1)[k] = Name(k)
          /\ issues[1] # <<>> =>
                 /\ Len(issues[1]) = 9
                 /\ \A k \in 1..9 : issues[1][k].num = k
          /\ pc[1] = "done" => Len(Checks(1)) = 9)
    /\ [][/\ cur'[1] # cur[1] => cur'[1] = cur[1] + 1 \/ pc'[1] = "read1"
          /\ Len(Checks(1)') > Len(Checks(1)) =>
                 /\ Len(Checks(1)') = Len(Checks(1)) + 1
                 /\ cur'[1] = cur[1] + 1
          /\ OpenStep(1) =>
                 /\ filename(1) = Name(cur[1])
                 /\ filename(1) \notin opened[1]
                 /\ opened'[1] = opened[1] \cup {filename(1)}]_vars

\* a run has visited the nine records, skipped some and opened others
C15_Witness ==
    /\ pc[1] = "done"
    /\ Checks(1) = [k \in 1..9 |-> Name(k)]
    /\ Name(5) \in Events(1, "skip")
    /\ {Name(1), Name(9)} \subseteq opened[1]
    /\ Name(5) \notin opened[1]

\* C16, as claimed (single-operation write): there is no state in which a
\* target the run has opened for writing exists holding less than the full
\* rendered document of its record.
Document(p, path) ==
    Header(RecordOf(p, IssueOf(path))) \o RecordOf(p, IssueOf(path)).body

C16_NoPartialFile ==
    \A path \in opened[1] : Exists(fs, path) /\ fs[path] = Document(1, path)

\* C16, amended: the document reaches the target through one open for writing
\* (which leaves the file existing and empty), five buffered writes and one
\* close. A target the run has opened always exists and holds a prefix of the
\* rendered document, followed in the buffer by what has been written and not
\* flushed; it holds a proper prefix only while the file object is open on it,
\* and the full document from the close on.
C16_PrefixUntilClosed ==
    \A path \in opened[1] :
        /\ Exists(fs, path)
        /\ IsPrefix(fs[path], Document(1, path))
        /\ fs[path] # Document(1, path) => f[1].open /\ f[1].path = path
        /\ (f[1].open /\ f[1].path = path) =>
               /\ Len(fs[path]) = f[1].pos
               /\ IsPrefix(fs[path] \o f[1].buf, Document(1, path))
               /\ pc[1] = "write_title" => fs[path] = <<>> /\ f[1].buf = <<>>
               /\ pc[1] = "write_body" =>
                      fs[path] \o f[1].buf = Header(RecordOf(1, IssueOf(path)))
               /\ pc[1] = "close" => fs[path] \o f[1].buf = Document(1, path)
        /\ path \in Events(1, "created") => fs[path] = Document(1, path)

\* the header has been handed to f.write and the target is still empty
C16_Witness ==
    /\ pc[1] = "write_body"
    /\ f[1].open
    /\ f[1].path = Name(4)
    /\ fs[Name(4)] = <<>>
    /\ f[1].buf = Header(RecordOf(1, 4))
    /\ Name(1) \in Events(1, "created")

\* the body has been handed to f.write and the target holds a part of the
\* document that ends inside the body
C16_PartialBody ==
    /\ pc[1] = "close"
    /\ f[1].path = Name(4)
    /\ Len(fs[Name(4)]) > Len(Header(RecordOf(1, 4)))
    /\ Len(fs[Name(4)]) < Len(Document(1, Name(4)))

\* C17 (created after write): a record is reported as created only after its
\* target has been opened, fully written and closed: every file reported as
\* created has been opened by the run, is no longer open and holds the whole
\* document; while a record is being written it is not reported as created,
\* and the step that reports it is the one that closes the file.
Writing(p) ==
    pc[p] \in {"open", "write_title", "write_milestone", "write_labels",
               "write_rule", "write_body", "close"}

CreatedCount(p) == Len(SelectSeq(out[p], LAMBDA e : e.ev = "created"))

C17_CreatedAfterWrite ==
    /\ [](/\ \A path \in Events(1, "created") :
                 /\ path \in opened[1]
                 /\ ~(f[1].open /\ f[1].path = path)
                 /\ Exists(fs, path)
                 /\ fs[path] = Document(1, path)
          /\ Writing(1) =>
                 /\ filename(1) \notin Events(1, "created")
                 /\ out[1][Len(out[1])] = [ev |-> "creating", file |-> filename(1)])
    /\ [][CreatedCount(1)' > CreatedCount(1) =>
              /\ pc[1] = "close"
              /\ f[1].open /\ ~f'[1].open
              /\ f[1].path = filename(1)
              /\ out'[1] = out[1] \o <<[ev |-> "created", file |-> filename(1)]>>
              /\ fs'[filename(1)] = Document(1, filename(1))]_vars

\* issue-04.md is written and about to be closed, not yet reported, after
\* issue-01.md has been reported as created
C17_Witness ==
    /\ pc[1] = "close"
    /\ f[1].open
    /\ f[1].path = Name(4)
    /\ fs[Name(4)] # Document(1, Name(4))
    /\ Events(1, "created") = {Name(1)}

\* C18 (exactly one outcome per record): every record the loop has taken is
\* reported exactly once, the one being written excepted until its file is
\* closed; the report is 'created' if and only if the target did not exist
\* when the record was reached; a run that is done has reported the nine
\* records, and the created and the skipped ones are nine together.
Count(p, kind) == Len(SelectSeq(out[p], LAMBDA e : e.ev = kind))

C18_OneOutcomeEach ==
    /\ [](/\ Len(Reports(1)) = (IF Writing(1) THEN cur[1] - 1 ELSE cur[1])
          /\ \A k \in 1..Len(Reports(1)) :
                 /\ Reports(1)[k].file = Name(k)
                 /\ Reports(1)[k].ev = "created" <=> Taken(1)[k].ev = "creating"
                 /\ Reports(1)[k].ev = "skip" <=> Taken(1)[k].ev = "skip"
          /\ pc[1] = "done" =>
                 /\ Len(Reports(1)) = 9
                 /\ Count(1, "created") + Count(1, "skip") = 9
                 /\ Cardinality(Events(1, "created")) = Count(1, "created")
                 /\ Cardinality(Events(1, "skip")) = Count(1, "skip")
                 /\ Events(1, "created") \cap Events(1, "skip") = {})
    /\ [][Len(Taken(1)') > Len(Taken(1)) =>
              LET e == Taken(1)'[Len(Taken(1)')] IN
              /\ e.file = Name(cur[1] + 1)
              /\ e.ev = "skip" <=> Exists(fs, e.file)
              /\ e.ev = "creating" <=> ~Exists(fs, e.file)]_vars

\* a run is done with seven records created and two skipped
C18_Witness ==
    /\ pc[1] = "done"
    /\ Count(1, "created") = 7
    /\ Count(1, "skip") = 2
    /\ Events(1, "skip") = {Name(2), Name(5)}

\* C19 (write failure propagates without cleanup): if opening or writing the
\* target of record k fails, the run stops there: the error is the last thing
\* printed, no record after k is taken, no summary is printed, the files
\* created before k hold their documents, every other file but the one of
\* record k is as before the run, and nothing is rolled back: the file of
\* record k is absent if the open failed and otherwise exists, holding a
\* prefix of its document. Only a new start follows.
FailedAt(p, k) == pc[p] = "failed" /\ cur[p] = k /\ k > 0

C19_FailureStops ==
    /\ [](/\ \A k \in IssueNums :
                 FailedAt(1, k) =>
                     /\ out[1][Len(out[1])] = [ev |-> "error", file |-> Name(k)]
                     /\ out[1][Len(out[1]) - 1] = [ev |-> "creating", file |-> Name(k)]
                     /\ Len(Taken(1)) = k
                     /\ SummaryLines(1) = <<>>
                     /\ ~f[1].open
                     /\ Name(k) \notin Events(1, "created")
                     /\ ~Exists(fs0[1], Name(k))
                     /\ \A j \in 1..(k - 1) :
                            IF Name(j) \in Events(1, "created")
                            THEN fs[Name(j)] = Document(1, Name(j))
                            ELSE fs[Name(j)] = fs0[1][Name(j)]
                     /\ \A j \in (k + 1)..9 : fs[Name(j)] = fs0[1][Name(j)]
                     /\ \A path \in Fragments \ {Issue2Path} : fs[path] = fs0[1][path]
                     /\ IF Name(k) \in opened[1]
                        THEN /\ Exists(fs, Name(k))
                             /\ IsPrefix(fs[Name(k)], Document(1, Name(k)))
                        ELSE ~Exists(fs, Name(k))
          /\ \A path \in opened[1] :
                 fs[path] # Document(1, path) =>
                     \/ f[1].open /\ f[1].path = path
                     \/ FailedAt(1, IssueOf(path)))
    /\ [][pc[1] = "failed" => pc'[1] = "read1" /\ fs' = fs]_vars

\* the write of issue-04.md has failed after issue-01.md and issue-03.md were
\* created: issue-04.md is left holding a part of its document that ends
\* inside the body
C19_Witness ==
    /\ FailedAt(1, 4)
    /\ Events(1, "created") = {Name(1), Name(3)}
    /\ Name(4) \in opened[1]
    /\ Len(fs[Name(4)]) > Len(Header(RecordOf(1, 4)))
    /\ fs[Name(4)] # Document(1, Name(4))
    /\ ~Exists(fs, Name(6))

\* the open of issue-04.md has failed: no file is left for it
C19_OpenFailed ==
    /\ FailedAt(1, 4)
    /\ Name(4) \notin opened[1]
    /\ ~Exists(fs, Name(4))

\* the write of issue-04.md has failed and has left the file empty
C19_EmptyLeft ==
    /\ FailedAt(1, 4)
    /\ Name(4) \in opened[1]
    /\ fs[Name(4)] = <<>>

\* C20 (catalog immutability): once the catalog is built no step of the write
\* phase or of the summary changes it (it goes only with the process, at a new
\* start): it has the keys 1..9 in order, the bodies of records 1 and 2 are
\* the texts read at startup, the records 4..9 are the literal ones, and every
\* step leaves every title, body, milestone and label list as it was.
Built(p) == issues[p] # <<>>

C20_CatalogImmutable ==
    /\ [](Built(1) =>
              /\ [k \in 1..Len(issues[1]) |-> issues[1][k].num] = [k \in 1..9 |-> k]
              /\ RecordOf(1, 1).body = issue1_body[1]
              /\ RecordOf(1, 2).body = issue2_body[1]
              /\ RecordOf(1, 1).title = Title1
              /\ \A n \in 4..9 : RecordOf(1, n) = LiteralRecord(n)
              /\ \A n \in IssueNums :
                     DOMAIN RecordOf(1, n) = {"title", "body", "milestone", "labels"})
    /\ [](pc[1] \in {"loop", "done"} \/ Writing(1) => Built(1))
    /\ [][Built(1) => issues'[1] = issues[1] \/ pc'[1] = "read1"]_vars

\* the run is done, having created files from the catalog, and the catalog
\* still holds the nine records with their bodies
C20_Witness ==
    /\ pc[1] = "done"
    /\ Built(1)
    /\ Cardinality(Events(1, "created")) >= 2
    /\ \A n \in Events(1, "created") :
           fs[n] = Header(RecordOf(1, IssueOf(n))) \o RecordOf(1, IssueOf(n)).body
    /\ RecordOf(1, 4).body = Body4

\* C22 (issue-02.md is never written): issue-02.md is the second fragment, so
\* a run that reaches the write phase has found it: record 2 is skipped, the
\* file is never opened for writing nor reported as being created, and no step
\* changes its content.
C22_SecondNeverWritten ==
    /\ [](/\ Name(2) = Issue2Path
          /\ Name(2) \notin opened[1]
          /\ Name(2) \notin Events(1, "creating") \cup Events(1, "created")
          /\ ~(f[1].open /\ f[1].path = Name(2))
          /\ fs[Name(2)] = fsInit[Name(2)]
          /\ Built(1) => Exists(fs, Name(2)) /\ Exists(fs0[1], Name(2))
          /\ cur[1] >= 2 => Taken(1)[2] = [ev |-> "skip", file |-> Name(2)])
    /\ [][fs'[Name(2)] = fs[Name(2)]]_vars

\* a run has created issue-01.md, skipped issue-02.md, which is no rendered
\* document, and gone on to create issue-03.md
C22_Witness ==
    /\ Name(1) \in Events(1, "created")
    /\ Name(3) \in Events(1, "created")
    /\ Name(2) \in Events(1, "skip")
    /\ fs[Name(2)] # Document(1, Name(2))
    /\ run[1] = 1

\* C23 (outputs exist after the run): the target of every record already
\* reported exists, no step deletes a file, and when the run is done the nine
\* files issue-01.md .. issue-09.md exist, created by the run or found by it.
C23_OutputsExist ==
    /\ [](/\ \A k \in 1..Len(Reports(1)) : Exists(fs, Name(k))
          /\ pc[1] = "done" => \A n \in IssueNums : Exists(fs, Name(n)))
    /\ [][\A path \in Paths : Exists(fs, path) => Exists(fs', path)]_vars

\* a first run is done: some of the nine files were found, the others created
C23_Witness ==
    /\ pc[1] = "done"
    /\ run[1] = 1
    /\ \A n \in IssueNums : Exists(fs, Name(n))
    /\ {n \in IssueNums : Exists(fs0[1], Name(n))} = {2, 5}
    /\ Events(1, "created") = {Name(n) : n \in IssueNums \ {2, 5}}

\* C24, as claimed (render/extract round trip): for a record whose title,
\* milestone and labels do not contain the marker '---\n\n', the after-marker
\* extraction applied to the rendered document returns the record's body.
Rendered(p) == pc[p] = "done" /\ Len(issues[p]) = 1 /\ Exists(fs, Name(1))

FieldsFree(rec, sep) ==
    /\ ~Contains(rec.title, sep)
    /\ ~Contains(rec.milestone, sep)
    /\ \A i \in 1..Len(rec.labels) : ~Contains(rec.labels[i], sep)

Rule == <<"-","-","-">>

C24_TitleEndsInRule ==
    /\ Rendered(1)
    /\ FieldsFree(RecordOf(1, 1), Marker2)
    /\ RecordOf(1, 1).title = <<"a","-","-","-">>
    /\ Len(Issue2Body(fs[Name(1)])) > Len(RecordOf(1, 1).body)

\* C25 (an interrupted write is never repaired): a run stopped after it has
\* opened the target of record k leaves the file existing, holding a prefix of
\* the document, empty or partial; a new start finds the file system as it was
\* left; a run skips every record whose target existed when it started and
\* leaves that file as it was; and no step changes a file that exists and is
\* not open for writing. So the file keeps its partial content over every
\* later run.
InterruptedAt(p, k) ==
    /\ FailedAt(p, k)
    /\ out[p][Len(out[p])] = [ev |-> "interrupt", file |-> Name(k)]

OpenOn(p, path) == f[p].open /\ f[p].path = path

C25_NeverRepaired ==
    /\ [](/\ \A k \in IssueNums :
                 InterruptedAt(1, k) =>
                     /\ Exists(fs, Name(k))
                     /\ IsPrefix(fs[Name(k)], Document(1, Name(k)))
                     /\ ~f[1].open
                     /\ Name(k) \notin Events(1, "created")
          /\ \A k \in 1..Len(Taken(1)) :
                 Exists(fs0[1], Name(k)) =>
                     /\ Taken(1)[k] = [ev |-> "skip", file |-> Name(k)]
                     /\ fs[Name(k)] = fs0[1][Name(k)]
                     /\ Name(k) \notin opened[1])
    /\ [][/\ pc'[1] = "read1" => fs' = fs /\ fs0'[1] = fs
          /\ \A path \in Paths :
                 (Exists(fs, path) /\ ~OpenOn(1, path)) => fs'[path] = fs[path]]_vars

\* the first run was stopped while writing issue-04.md; the second run is done,
\* has skipped issue-04.md and has left it holding a part of its document
C25_Witness ==
    /\ run[1] = 2
    /\ pc[1] = "done"
    /\ Name(4) \in Events(1, "skip")
    /\ fs[Name(4)] # <<>>
    /\ fs[Name(4)] # Document(1, Name(4))
    /\ IsPrefix(fs[Name(4)], Document(1, Name(4)))
    /\ ~Exists(fsInit, Name(4))
    /\ fs[Name(5)] = Document(1, Name(5))

\* the same with issue-04.md left empty
C25_EmptyKept ==
    /\ run[1] = 2
    /\ pc[1] = "done"
    /\ Name(4) \in Events(1, "skip")
    /\ fs[Name(4)] = <<>>
    /\ ~Exists(fsInit, Name(4))

\* C21 (check-then-write race): with two instances in one directory the
\* existence check and the open are separate steps: an instance about to open
\* a target found it absent at its check, and if the target exists by then the
\* other instance has opened it in between; a target opened by both was found
\* absent by both, and both report it as created when they are done.
Other(p) == CHOOSE q \in Procs : q # p

BothDone == pc[1] = "done" /\ pc[2] = "done"

C21_CheckThenWrite ==
    /\ \A p \in Procs :
           /\ pc[p] = "open" =>
                  /\ out[p][Len(out[p])] = [ev |-> "creating", file |-> filename(p)]
                  /\ ~Exists(fs0[p], filename(p)) \/ filename(p) \in opened[Other(p)]
                  /\ Exists(fs, filename(p)) => filename(p) \in opened[Other(p)]
           /\ \A path \in opened[p] :
                  /\ path \in Events(p, "creating")
                  /\ pc[p] = "done" => path \in Events(p, "created")
    /\ \A path \in opened[1] \cap opened[2] :
           /\ ~Exists(fsInit, path)
           /\ BothDone => path \in Events(1, "created") \cap Events(2, "created")

\* both instances found issue-04.md absent and have it open for writing at the
\* same time
C21_Witness ==
    /\ OpenOn(1, Name(4))
    /\ OpenOn(2, Name(4))
    /\ Name(4) \in Events(1, "creating") \cap Events(2, "creating")
    /\ ~Exists(fsInit, Name(4))

\* both instances are done and both report issue-04.md as created
C21_BothCreated ==
    /\ BothDone
    /\ Name(4) \in Events(1, "created") \cap Events(2, "created")

\* C26 (concurrent runs converge): two instances in one directory read the
\* same fragments and so hold the same catalog; when both are done every file
\* opened by either holds exactly the full document of its record, whatever
\* the interleaving; before that a file not open for writing in any instance
\* holds its document too.
C26_Converge ==
    /\ (Built(1) /\ Built(2)) => issues[1] = issues[2]
    /\ \A p \in Procs :
           \A path \in opened[p] :
               /\ Exists(fs, path)
               /\ BothDone => fs[path] = Document(p, path)
               /\ (~OpenOn(1, path) /\ ~OpenOn(2, path)) => fs[path] = Document(p, path)
    /\ BothDone =>
           \A n \in IssueNums :
               IF Exists(fsInit, Name(n))
               THEN fs[Name(n)] = fsInit[Name(n)]
               ELSE fs[Name(n)] = Document(1, Name(n))

\* both instances are done, both created issue-01.md and issue-09.md, and
\* the files hold the documents
C26_Witness ==
    /\ BothDone
    /\ {Name(1), Name(9)} \subseteq Events(1, "created") \cap Events(2, "created")
    /\ fs[Name(1)] = Document(1, Name(1))
    /\ fs[Name(9)] = Document(2, Name(9))

\* one instance has flushed a part of issue-04.md, the other has truncated the
\* file since, and the close of the first has left a gap before its last part
C26_Gap ==
    /\ Exists(fs, Name(4))
    /\ \E i \in 1..Len(fs[Name(4)]) : fs[Name(4)][i] = NUL
    /\ OpenOn(1, Name(4)) \/ OpenOn(2, Name(4))

\* both have written issue-04.md, one is done with it, and the file is short
\* of the document because the other has truncated it
C26_TruncatedAfterCreated ==
    /\ Name(4) \in Events(1, "created")
    /\ OpenOn(2, Name(4))
    /\ fs[Name(4)] # Document(1, Name(4))

=============================================================================
